---- MODULE Spec2Model ----
(***************************************************************************)
(* Model of scripts/k3d_bootstrap.sh: the bootstrap orchestrator, its      *)
(* stages, the background ArgoCD port-forward (the tunnel), the handle     *)
(* file /tmp/argocd-port-forward.pid and the EXIT trap `cleanup`.          *)
(*                                                                         *)
(* A run is one invocation of the script, executed by one bash process.    *)
(* Shells is the set of bash processes that can exist at the same time;    *)
(* the variables of the script are functions of the shell.  In Spec the    *)
(* operator starts a run only when no other run is in progress.  The       *)
(* machine state the runs share is the handle file and the table of live   *)
(* processes.  Optional values (the handle file's content, a shell         *)
(* variable holding a pid) are sets with at most one element.              *)
(*                                                                         *)
(* A stage is the list of its commands; under set -e the first one that    *)
(* fails ends the run.  The runs also share the k3d cluster ca-dev, what   *)
(* is installed in it and ArgoCD's admin secret.  A readiness wait (helm   *)
(* --wait, kubectl wait) is a state of its own in which a clock counts the *)
(* seconds, a minute at a time.  In SpecOverlap the operator starts the    *)
(* script while a run is in progress.                                      *)
(*                                                                         *)
(* The module also models two programs that stand apart from the script:   *)
(* validateEnvironment and createEnvironmentValidator of                   *)
(* libs/common/src/config/env.validation.ts (SpecValidation), and main and *)
(* validate_chart of the chart validation in scripts/generate-helm-charts  *)
(* .sh (SpecCharts).  Each specification leaves the variables of the other *)
(* programs as they are at the start.                                      *)
(***************************************************************************)
EXTENDS Integers, FiniteSets, Sequences, TLC

\* ------------------------------------------------------------------ bounds
NumShells == 2
MaxRuns == 2
MaxPid == 2

Shells == 1..NumShells
Pids == 1..MaxPid

\* Signals that terminate the shell through its handler (SIGINT, SIGTERM);
\* bash runs the EXIT trap for these and then dies with status 128 + n.
Signals == {2, 15}

\* The tools check_prerequisites looks up, in the order it looks them up.
Tools == <<"k3d", "kubectl", "helm">>

VARIABLES
    pc,             \* pc[r]: the statement shell r is about to execute
    ran,            \* ran[r]: the statements of main that have succeeded
    status,         \* status[r]: exit status of the run (0 until it exits)
    PID,            \* PID[r]: cleanup's variable PID (line 207)
    ARGOCD_PF_PID,  \* ARGOCD_PF_PID[r]: $! of the port-forward (line 148)
    tunnel,         \* tunnel[r]: state of the port-forward the run spawned
    pidFile,        \* content of /tmp/argocd-port-forward.pid ({} = no file)
    others,         \* pids of live processes that are not a tunnel
    stale,          \* pids of live tunnels spawned by runs of earlier shells
    runs,           \* number of runs started so far
    victim,         \* victim[r]: what process the run's `kill "$PID"` hit
    stop,           \* stop[r]: progress of the run's cleanup
    cleanupCalls,   \* cleanupCalls[r]: how often the run entered cleanup
    onPath,         \* onPath[r]: the tools `command -v` found in the run's check
    reported,       \* reported[r]: the tool named by check_prerequisites
    failed,         \* failed[r]: the stage whose command failed ({} = none)
    calls,          \* calls[r]: the commands the run has issued, in order
    elapsed,        \* elapsed[r]: seconds spent in a readiness wait that is
                    \* going on or has timed out
    ARGOCD_PASSWORD, \* ARGOCD_PASSWORD[r]: the shell variable (line 140)
    shown,          \* shown[r]: the password display_info printed
    cluster,        \* the run that created the k3d cluster ca-dev ({} = absent)
    content,        \* content[c]: revision of component c in cluster ca-dev
    secret,         \* argocd-initial-admin-secret of ca-dev ({} = not there)
    synced,         \* ArgoCD has synced the Application of deploy/argocd/app.yaml
    context,        \* current-context of the operator's kubeconfig
    readyLog,       \* the states of ca-dev in which a main has returned
    validation,     \* env.validation.ts, a call and what it comes to:
                    \*   config        the schema class of the call
                    \*   processEnv    process.env
                    \*   passed        the envVars argument (given or left out)
                    \*   direct        outcome of validateEnvironment(config,
                    \*                 envVars)
                    \*   viaValidator  outcome of
                    \*                 createEnvironmentValidator(config)(envVars)
    charts          \* generate-helm-charts.sh, a run of the chart validation:
                    \*   step          where main is
                    \*   service       index in SERVICES of the loop (line 399)
                    \*   failed_charts the array failed_charts (line 398)
                    \*   chart         the content of the chart validate_chart
                    \*                 was last called on
                    \*   validated     the calls of validate_chart so far and
                    \*                 what they ran
                    \*   exitCode      the exit status ({} = running)

\* The state of the processes and of the handle file.
procVars == <<PID, ARGOCD_PF_PID, tunnel, pidFile, others, stale, victim>>

\* The state of the k3d clusters.
envVars == <<cluster, content, secret, synced, context>>

\* What a run has done to the clusters and what it has printed.
runVars == <<onPath, reported, calls, elapsed, ARGOCD_PASSWORD, shown, readyLog>>

vars == <<pc, ran, status, PID, ARGOCD_PF_PID, tunnel, pidFile, others, stale,
          runs, victim, stop, cleanupCalls, onPath, reported, failed, calls,
          elapsed, ARGOCD_PASSWORD, shown, cluster, content, secret,
          synced, context, readyLog, validation, charts>>

\* The state of k3d_bootstrap.sh and of what it acts on.
bootstrapVars ==
    <<pc, ran, status, PID, ARGOCD_PF_PID, tunnel, pidFile, others, stale,
      runs, victim, stop, cleanupCalls, onPath, reported, failed, calls,
      elapsed, ARGOCD_PASSWORD, shown, cluster, content, secret, synced,
      context, readyLog>>

\* What k3d_bootstrap.sh does not touch.
otherVars == <<validation, charts>>

\* ------------------------------------------------------- the script's text
\* main with the port-forward spawned as soon as the cluster is there.
MainStepsTunnelEarly ==
    << "check_prerequisites", "create_cluster", "port_forward", "save_pid",
       "install_ingress_nginx", "install_keda", "install_argocd",
       "deploy_application", "display_info" >>

\* main with the port-forward spawned before ArgoCD is installed and ready.
MainStepsTunnelFirst ==
    << "check_prerequisites", "create_cluster", "install_ingress_nginx",
       "install_keda", "port_forward", "save_pid", "install_argocd",
       "deploy_application", "display_info" >>

\* The statements of main (with install_argocd split where a signal can
\* separate its effects: the installation, the spawn, the write of the file).
MainSteps ==
    << "check_prerequisites", "create_cluster", "install_ingress_nginx",
       "install_keda", "install_argocd", "port_forward", "save_pid",
       "deploy_application", "display_info" >>

\* The statements of cleanup.
CleanupSteps == << "cleanup", "cat", "kill0", "kill", "rm" >>

Range(s) == {s[i] : i \in 1..Len(s)}

IndexOf(s, x) == CHOOSE i \in 1..Len(s) : s[i] = x

\* A main that leaves out the statement after s.
NextStepSkip(s) ==
    LET i == IndexOf(MainSteps, s)
    IN  IF i + 1 < Len(MainSteps) THEN MainSteps[i + 2] ELSE "exit"

\* The statement main executes after statement s has succeeded; after the
\* last one main returns and the shell exits.
NextStep(s) ==
    LET i == IndexOf(MainSteps, s)
    IN  IF i < Len(MainSteps) THEN MainSteps[i + 1] ELSE "exit"

\* The shell without an EXIT trap: it exits at once.
ExitTrapUnset == "done"

\* trap cleanup EXIT: where the shell goes when it exits.
ExitTrap == "cleanup"

\* The pids of the live processes.
LivePids ==
    others \cup stale \cup
    UNION {ARGOCD_PF_PID[r] : r \in {q \in Shells : tunnel[q] = "alive"}}

\* [ -f /tmp/argocd-port-forward.pid ]
FileTest(f) == f # {}

\* A liveness probe that takes any recorded pid for a live process.
KillZeroAlways(p, live) == p # {}

\* kill -0 "$PID" 2>/dev/null
KillZero(p, live) == p # {} /\ p \subseteq live

\* A check that goes through all the tools and names the last missing one.
LastMissing(present) ==
    LET miss == {i \in 1..Len(Tools) : Tools[i] \notin present}
    IN  IF miss = {} THEN {}
        ELSE {Tools[CHOOSE i \in miss : \A j \in miss : i >= j]}

\* command -v: the first tool of Tools that is not in `present`, as a set.
FirstMissing(present) ==
    LET miss == {i \in 1..Len(Tools) : Tools[i] \notin present}
    IN  IF miss = {} THEN {}
        ELSE {Tools[CHOOSE i \in miss : \A j \in miss : i <= j]}

\* The kind of process the pid in p names, seen from the run of shell r.
ProcessAt(r, p) ==
    IF p = {} THEN "none"
    ELSE IF p \subseteq others THEN "other"
    ELSE IF tunnel[r] = "alive" /\ ARGOCD_PF_PID[r] = p THEN "own"
    ELSE IF \/ p \subseteq stale
            \/ \E q \in Shells : tunnel[q] = "alive" /\ ARGOCD_PF_PID[q] = p
         THEN "tunnel"
    ELSE "none"

\* A `kill` that leaves the tunnels running.
TerminateNone(t, p) == t

\* The effect of `kill` (SIGTERM) on the tunnels: the one with pid p ends.
Terminate(t, p) ==
    [q \in Shells |-> IF t[q] = "alive" /\ ARGOCD_PF_PID[q] = p
                      THEN "killed" ELSE t[q]]

\* CLUSTER_NAME="ca-dev"  (line 9).
CLUSTER_NAME == "ca-dev"

\* The names of the k3d clusters the machine can hold: the script's own and
\* one more that the operator keeps under another name.
ClusterNames == {"ca-dev", "ca-dev-2"}

\* The characters of a cluster name, as `k3d cluster list` prints it.
Chars ==
    ("ca-dev" :> << "c", "a", "-", "d", "e", "v" >>) @@
    ("ca-dev-2" :> << "c", "a", "-", "d", "e", "v", "-", "2" >>)

\* grep without -x or -w: the pattern occurs somewhere in the line.
Contains(line, pat) ==
    \E i \in 0..(Len(line) - Len(pat)) :
        SubSeq(line, i + 1, i + Len(pat)) = pat

\* An existence test that never sees a cluster.
GrepMatchNever(names, pat) == FALSE

\* k3d cluster list | grep -q "${CLUSTER_NAME}"  (line 65): some line of the
\* list, one per existing cluster, contains the pattern.
GrepMatch(names, pat) == \E n \in names : Contains(Chars[n], Chars[pat])

\* What the script puts into the cluster it has made current.
Components ==
    {"ingress-nginx", "keda", "argocd-ns", "argocd", "app-ns", "app"}

\* The admin passwords argocd-server can generate.
Passwords == {"a"}

\* .data.password of a Kubernetes secret holds the value in base64.
Base64 == [p \in Passwords |-> "YQ=="]

\* kubectl -n argocd get secret argocd-initial-admin-secret
\*     -o jsonpath="{.data.password}"  (line 140): what it writes to the pipe;
\* nothing when the secret is not there (the error goes to stderr).
GetSecret(sec) == IF sec = {} THEN "" ELSE Base64[CHOOSE p \in sec : TRUE]

\* base64 -d  (line 140): its status is the status of the pipeline.
Base64Decode(x) ==
    IF x = "" THEN "" ELSE CHOOSE p \in Passwords : Base64[p] = x

\* The readiness waits: of `helm upgrade --install --wait` (lines 94-102 and
\* 116-120) and of `kubectl wait` (line 137).
WaitSteps == {"wait_ingress", "wait_keda", "wait_argocd"}

\* The stage a statement belongs to.
StageOf(s) ==
    CASE s = "wait_ingress" -> "install_ingress_nginx"
      [] s = "wait_keda" -> "install_keda"
      [] s \in {"wait_argocd", "port_forward", "save_pid"} -> "install_argocd"
      [] OTHER -> s

\* The readiness wait a stage's action is followed by ("" = none).
WaitOf(s) ==
    CASE s = "install_ingress_nginx" -> "wait_ingress"
      [] s = "install_keda" -> "wait_keda"
      [] s = "install_argocd" -> "wait_argocd"
      [] OTHER -> ""

\* The component a readiness wait waits for.
Awaited ==
    [w \in WaitSteps |->
        CASE w = "wait_ingress" -> "ingress-nginx"
          [] w = "wait_keda" -> "keda"
          [] OTHER -> "argocd"]

\* A wait that no bound ever ends.
TimedOutNever(w, t) == FALSE

\* --timeout=300s of kubectl wait (line 137); helm's --wait (lines 102, 120)
\* runs with helm's default --timeout of 5m0s, which is 300 seconds.
TimedOut(w, t) == t >= 300

\* A create_cluster that keeps a cluster it finds.
CommandsReuse(s, match, appYaml) ==
    CASE s = "create_cluster" ->
            (IF match THEN << >> ELSE << "k3d cluster create" >>) \o
            << "kubectl config use-context" >>
      [] s = "install_ingress_nginx" ->
            << "helm repo add", "helm repo update", "helm upgrade ingress-nginx" >>
      [] s = "install_keda" ->
            << "helm repo add", "helm repo update", "helm upgrade keda" >>
      [] s = "install_argocd" ->
            << "kubectl apply argocd-ns", "kubectl apply argocd" >>
      [] s = "deploy_application" ->
            << "kubectl apply app-ns" >> \o
            (IF appYaml THEN << "kubectl apply app", "sleep 30" >>
                        ELSE << "return 1" >>)
      [] OTHER -> << >>

\* A deploy_application that goes on to wait for the Application's sync.
CommandsAwaitSync(s, match, appYaml) ==
    CASE s = "create_cluster" ->
            (IF match THEN << "k3d cluster delete" >> ELSE << >>) \o
            << "k3d cluster create", "kubectl config use-context" >>
      [] s = "install_ingress_nginx" ->
            << "helm repo add", "helm repo update", "helm upgrade ingress-nginx" >>
      [] s = "install_keda" ->
            << "helm repo add", "helm repo update", "helm upgrade keda" >>
      [] s = "install_argocd" ->
            << "kubectl apply argocd-ns", "kubectl apply argocd" >>
      [] s = "deploy_application" ->
            << "kubectl apply app-ns" >> \o
            (IF appYaml
             THEN << "kubectl apply app", "sleep 30", "argocd app wait" >>
             ELSE << "return 1" >>)
      [] OTHER -> << >>

\* The commands of stage s that change something or can fail, in the order
\* the stage issues them; match is the result of line 65, appYaml of line 163.
Commands(s, match, appYaml) ==
    CASE s = "create_cluster" ->
            (IF match THEN << "k3d cluster delete" >> ELSE << >>) \o
            << "k3d cluster create", "kubectl config use-context" >>
      [] s = "install_ingress_nginx" ->
            << "helm repo add", "helm repo update", "helm upgrade ingress-nginx" >>
      [] s = "install_keda" ->
            << "helm repo add", "helm repo update", "helm upgrade keda" >>
      [] s = "install_argocd" ->
            << "kubectl apply argocd-ns", "kubectl apply argocd" >>
      [] s = "deploy_application" ->
            << "kubectl apply app-ns" >> \o
            (IF appYaml THEN << "kubectl apply app", "sleep 30" >>
                        ELSE << "return 1" >>)
      [] OTHER -> << >>

\* The clusters as the commands see them.
Env ==
    [cluster |-> cluster, content |-> content, secret |-> secret,
     synced |-> synced, context |-> context]

\* A cluster without anything in it.
Empty == [c \in Components |-> 0]

\* The kubeconfig context k3d makes for the cluster (line 80).
ClusterContext == "k3d-ca-dev"

\* k3d cluster delete "${CLUSTER_NAME}"  (line 67): the cluster goes with all
\* that is in it, and so does its context in the kubeconfig, which falls
\* back to the context it has left.
Delete(e) ==
    IF e.cluster = {} THEN e
    ELSE [cluster |-> {}, content |-> Empty, secret |-> {}, synced |-> FALSE,
          context |-> "default"]

\* Commands that leave the kubeconfig's current context as it is.
EffectNoSwitch(c, e, n) ==
    CASE c = "k3d cluster delete" -> Delete(e)
      [] c = "k3d cluster create" ->
            [cluster |-> {n}, content |-> Empty, secret |-> {},
             synced |-> FALSE, context |-> e.context]
      [] c = "helm upgrade ingress-nginx" ->
            [e EXCEPT !.content["ingress-nginx"] = @ + 1]
      [] c = "helm upgrade keda" -> [e EXCEPT !.content["keda"] = @ + 1]
      [] c = "kubectl apply argocd-ns" -> [e EXCEPT !.content["argocd-ns"] = 1]
      [] c = "kubectl apply argocd" -> [e EXCEPT !.content["argocd"] = 1]
      [] c = "kubectl apply app-ns" -> [e EXCEPT !.content["app-ns"] = 1]
      [] c = "kubectl apply app" -> [e EXCEPT !.content["app"] = 1]
      [] OTHER -> e

\* The state of the clusters after command c of run number n has succeeded.
\* helm upgrade --install makes a new revision of the release; kubectl apply
\* creates the object or leaves the one that is there; k3d cluster create
\* adds the cluster's context to the kubeconfig and selects it, as line 80
\* does once more.
Effect(c, e, n) ==
    CASE c = "k3d cluster delete" -> Delete(e)
      [] c = "k3d cluster create" ->
            [cluster |-> {n}, content |-> Empty, secret |-> {},
             synced |-> FALSE, context |-> ClusterContext]
      [] c = "kubectl config use-context" -> [e EXCEPT !.context = ClusterContext]
      [] c = "helm upgrade ingress-nginx" ->
            [e EXCEPT !.content["ingress-nginx"] = @ + 1]
      [] c = "helm upgrade keda" -> [e EXCEPT !.content["keda"] = @ + 1]
      [] c = "kubectl apply argocd-ns" -> [e EXCEPT !.content["argocd-ns"] = 1]
      [] c = "kubectl apply argocd" -> [e EXCEPT !.content["argocd"] = 1]
      [] c = "kubectl apply app-ns" -> [e EXCEPT !.content["app-ns"] = 1]
      [] c = "kubectl apply app" -> [e EXCEPT !.content["app"] = 1]
      [] OTHER -> e

\* The commands that talk to the cluster ca-dev.
ClusterCommands ==
    {"kubectl config use-context", "helm upgrade ingress-nginx",
     "helm upgrade keda", "kubectl apply argocd-ns", "kubectl apply argocd",
     "kubectl apply app-ns", "kubectl apply app"}

\* Command c can succeed in e: k3d refuses to create a cluster under a name
\* that is taken, helm and kubectl need the cluster they talk to,
\* and `return 1` is a failure.
CanSucceed(c, e) ==
    CASE c = "k3d cluster create" -> e.cluster = {}
      [] c \in ClusterCommands -> e.cluster # {}
      [] c = "return 1" -> FALSE
      [] OTHER -> TRUE

\* Command c can fail: sleep does not.
CanFail(c) == c # "sleep 30"

\* The state of the clusters after the first k commands of cmds.
RECURSIVE After(_, _, _, _)
After(cmds, k, e, n) ==
    IF k = 0 THEN e ELSE Effect(cmds[k], After(cmds, k - 1, e, n), n)

\* The first k commands of cmds succeed and, if there is one more, it fails.
Possible(cmds, k, e, n) ==
    /\ \A i \in 1..k : CanSucceed(cmds[i], After(cmds, i - 1, e, n))
    /\ k < Len(cmds) => CanFail(cmds[k + 1])

\* The commands issued when the first k of cmds succeed, as stage s's calls.
Issued(s, cmds, k) ==
    [i \in 1..(IF k < Len(cmds) THEN k + 1 ELSE k) |->
        [stage |-> s, cmd |-> cmds[i]]]

\* ------------------------- libs/common/src/config/env.validation.ts
\* The names of environment variables that are told apart: two properties
\* of BaseEnvironmentConfig, one property that only EnvironmentConfig
\* declares, and one that no schema declares; in the order of the object's
\* keys.
Keys == << "NODE_ENV", "PORT", "jwt", "HOME" >>

\* The objects passed as envVars: "undefined" stands for a key that is not
\* there.
EnvObjects ==
    [NODE_ENV : {"undefined", "production", "prod"},
     PORT : {"undefined", "8080", "abc"},
     jwt : {"undefined", "secret"},
     HOME : {"undefined", "/root"}]

\* An object without keys.
EmptyEnv ==
    [NODE_ENV |-> "undefined", PORT |-> "undefined", jwt |-> "undefined",
     HOME |-> "undefined"]

\* enum Environment.
Environment == {"development", "staging", "production", "test"}

\* The schema classes and the properties they decorate, among Keys.
Schemas == {"BaseEnvironmentConfig", "EnvironmentConfig"}

Declared(schema) ==
    IF schema = "EnvironmentConfig" THEN {"NODE_ENV", "PORT", "jwt"}
    ELSE {"NODE_ENV", "PORT"}

\* The number NaN.
NaN == -1

\* PORT: number = 3000  (line 38).
DefaultPort == 3000

\* parseInt(value, 10) of @Transform (line 37), on the strings of EnvObjects.
ParseInt == "8080" :> 8080 @@ "abc" :> NaN

\* plainToClass(config, envVars, { enableImplicitConversion: true }): an
\* instance with the defaults of the class, every key of envVars copied to
\* it, PORT through parseInt.
PlainToClass(schema, e) ==
    [NODE_ENV |-> IF e.NODE_ENV = "undefined" THEN "development" ELSE e.NODE_ENV,
     PORT |-> IF e.PORT = "undefined" THEN DefaultPort ELSE ParseInt[e.PORT],
     jwt |-> e.jwt,
     HOME |-> e.HOME]

\* The keys of q that object e has and allowed does not hold, in order.
RECURSIVE SelectKeys(_, _, _)
SelectKeys(q, e, allowed) ==
    IF q = << >> THEN << >>
    ELSE (IF e[Head(q)] # "undefined" /\ Head(q) \notin allowed
          THEN << Head(q) >> ELSE << >>) \o SelectKeys(Tail(q), e, allowed)

\* validateSync(validatedConfig, { skipMissingProperties: false, whitelist:
\* true, forbidNonWhitelisted: true }): one ValidationError for every
\* property of the object that the class does not decorate, then one for
\* every decorated property whose value fails its decorator.
ValidateSync(schema, e, obj) ==
    LET extra == SelectKeys(Keys, e, Declared(schema))
    IN  [i \in 1..Len(extra) |->
            [property |-> extra[i], hasConstraints |-> TRUE,
             constraints |-> << "property should not exist" >>]]
        \o (IF obj.NODE_ENV \notin Environment
            THEN << [property |-> "NODE_ENV", hasConstraints |-> TRUE,
                     constraints |-> << "must be one of the following values" >>] >>
            ELSE << >>)
        \o (IF obj.PORT = NaN
            THEN << [property |-> "PORT", hasConstraints |-> TRUE,
                     constraints |-> << "must be a number" >>] >>
            ELSE << >>)

\* Array.prototype.join: the elements of q with sep between them; a string
\* is the sequence of its pieces.
RECURSIVE Join(_, _)
Join(q, sep) ==
    IF Len(q) = 0 THEN << >>
    ELSE IF Len(q) = 1 THEN q[1]
    ELSE q[1] \o << sep >> \o Join(Tail(q), sep)

\* The callback of errors.map (lines 180-185).
ErrorMessage(error) ==
    IF error.hasConstraints
    THEN Join([i \in 1..Len(error.constraints) |->
                  << error.property, error.constraints[i] >>], ", ")
    ELSE << "Invalid value for ", error.property >>

\* What a call has come to: nothing yet.
NoOutcome == [kind |-> "none", value |-> {}, message |-> << >>]

\* A validateEnvironment that reports its first error only.
validateEnvironmentFirstError(schema, arg, env) ==
    LET envVarsOrDefault == IF arg.given THEN arg.vars ELSE env
        validatedConfig == PlainToClass(schema, envVarsOrDefault)
        errors == ValidateSync(schema, envVarsOrDefault, validatedConfig)
    IN  IF Len(errors) > 0
        THEN [kind |-> "thrown", value |-> {},
              message |-> << "Environment validation failed: " >> \o
                          ErrorMessage(errors[1])]
        ELSE [kind |-> "returned", value |-> {validatedConfig},
              message |-> << >>]

\* validateEnvironment(config, envVars = process.env) (lines 164-192): the
\* object returned, or the message of the Error thrown.
validateEnvironment(schema, arg, env) ==
    LET envVarsOrDefault == IF arg.given THEN arg.vars ELSE env
        validatedConfig == PlainToClass(schema, envVarsOrDefault)
        errors == ValidateSync(schema, envVarsOrDefault, validatedConfig)
    IN  IF Len(errors) > 0
        THEN [kind |-> "thrown", value |-> {},
              message |-> << "Environment validation failed: " >> \o
                          Join([i \in 1..Len(errors) |->
                                   ErrorMessage(errors[i])], "; ")]
        ELSE [kind |-> "returned", value |-> {validatedConfig},
              message |-> << >>]

\* The function createEnvironmentValidator(config) returns (lines 202-203),
\* applied to arg.
createEnvironmentValidator(schema, arg, env) ==
    validateEnvironment(schema, arg, env)

\* Nothing has called env.validation.ts.
InitValidationIdle ==
    validation =
        [config |-> "BaseEnvironmentConfig", processEnv |-> EmptyEnv,
         passed |-> [given |-> FALSE, vars |-> EmptyEnv],
         direct |-> NoOutcome, viaValidator |-> NoOutcome]

\* ------------- scripts/generate-helm-charts.sh, the validation of charts
\* SERVICES=(...)  (line 188).
SERVICES == << "api-gateway", "auth", "analysis", "citation", "ocr-wrapper" >>

\* The validations of validate_chart in the order of lines 373-377.
Validations ==
    << "validate_chart_structure", "validate_yaml_syntax",
       "validate_chart_metadata", "validate_values_structure",
       "validate_template_syntax" >>

\* The validations that have a `return 1`; validate_template_syntax only
\* warns (lines 333-357).
Fallible == Range(Validations) \ {"validate_template_syntax"}

\* What a chart can look like: its directory is there or not, and bad is
\* the set of validations its files do not pass.
Charts ==
    {[dir |-> TRUE, bad |-> b] : b \in SUBSET Fallible}
    \cup {[dir |-> FALSE, bad |-> {}]}

\* A validate_chart that goes on after a validation has failed.
RECURSIVE RunValidationsAll(_, _)
RunValidationsAll(bad, i) ==
    IF i > Len(Validations) THEN [ran |-> << >>, status |-> 0]
    ELSE LET rest == RunValidationsAll(bad, i + 1)
         IN  [ran |-> << Validations[i] >> \o rest.ran,
              status |-> IF Validations[i] \in bad THEN 1 ELSE rest.status]

\* Lines 373-377: `validate_x ... || return 1`, from the i-th on.
RECURSIVE RunValidations(_, _)
RunValidations(bad, i) ==
    IF i > Len(Validations) THEN [ran |-> << >>, status |-> 0]
    ELSE IF Validations[i] \in bad
    THEN [ran |-> << Validations[i] >>, status |-> 1]
    ELSE LET rest == RunValidations(bad, i + 1)
         IN  [ran |-> << Validations[i] >> \o rest.ran, status |-> rest.status]

\* validate_chart (lines 360-381): the validations it runs and its status.
validate_chart(c) ==
    IF ~c.dir THEN [ran |-> << >>, status |-> 1]
    ELSE RunValidations(c.bad, 1)

\* A chart that passes.
GoodChart == [dir |-> TRUE, bad |-> {}]

\* The chart validation has not been started.
InitChartsIdle ==
    charts =
        [step |-> "idle", service |-> 1, failed_charts |-> << >>,
         chart |-> GoodChart, validated |-> << >>, exitCode |-> {}]

\* --------------------------------------------------------------- the state
InitBootstrap ==
    /\ pc = [r \in Shells |-> "idle"]
    /\ ran = [r \in Shells |-> << >>]
    /\ status = [r \in Shells |-> 0]
    /\ PID = [r \in Shells |-> {}]
    /\ ARGOCD_PF_PID = [r \in Shells |-> {}]
    /\ tunnel = [r \in Shells |-> "none"]
    /\ pidFile = {}
    /\ others = {}
    /\ stale = {}
    /\ runs = 0
    /\ victim = [r \in Shells |-> "none"]
    /\ stop = [r \in Shells |-> "no"]
    /\ cleanupCalls = [r \in Shells |-> 0]
    /\ onPath = [r \in Shells |-> Range(Tools)]
    /\ reported = [r \in Shells |-> {}]
    /\ failed = [r \in Shells |-> {}]
    /\ calls = [r \in Shells |-> << >>]
    /\ elapsed = [r \in Shells |-> 0]
    /\ ARGOCD_PASSWORD = [r \in Shells |-> ""]
    /\ shown = [r \in Shells |-> {}]
    /\ cluster = {}
    /\ content = Empty
    /\ secret = {}
    /\ synced = FALSE
    /\ context = "default"
    /\ readyLog = {}

\* The bootstrap script before its first run; nothing has called
\* env.validation.ts and the chart validation has not been started.
Init == InitBootstrap /\ InitValidationIdle /\ InitChartsIdle

\* The shell exits with status code: the EXIT trap takes over.
Exit(r, code) ==
    /\ status' = [status EXCEPT ![r] = code]
    /\ pc' = [pc EXCEPT ![r] = ExitTrap]
    /\ IF ExitTrap = "cleanup"
       THEN /\ stop' = [stop EXCEPT ![r] = "running"]
            /\ cleanupCalls' = [cleanupCalls EXCEPT ![r] = @ + 1]
       ELSE UNCHANGED <<stop, cleanupCalls>>

\* Statement s of main succeeded.
Advance(r, s) ==
    /\ ran' = [ran EXCEPT ![r] = Append(@, s)]
    /\ UNCHANGED failed
    /\ IF NextStep(s) = "exit"
       THEN Exit(r, 0)
       ELSE /\ pc' = [pc EXCEPT ![r] = NextStep(s)]
            /\ UNCHANGED <<status, stop, cleanupCalls>>

\* A shell without set -e: main goes on after a command has failed.
FailIgnored(r) ==
    /\ failed' = [failed EXCEPT ![r] = {StageOf(pc[r])}]
    /\ UNCHANGED ran
    /\ IF NextStep(StageOf(pc[r])) = "exit"
       THEN Exit(r, 0)
       ELSE /\ pc' = [pc EXCEPT ![r] = NextStep(StageOf(pc[r]))]
            /\ UNCHANGED <<status, stop, cleanupCalls>>

\* A command of a statement failed under set -e (or it called exit 1, or the
\* function returned 1): the shell exits with 1.
Fail(r) ==
    /\ Exit(r, 1)
    /\ failed' = [failed EXCEPT ![r] = {StageOf(pc[r])}]
    /\ UNCHANGED ran

\* No run is in progress.
Sequential == \A q \in Shells : pc[q] \in {"idle", "done"}

\* The script starts (main "$@", line 234) in a new shell: its variables
\* are fresh; a tunnel the previous run of the slot left alive lives on
\* without a shell.
Launch(r) ==
    /\ runs < MaxRuns
    /\ pc[r] \in {"idle", "done"}
    /\ \A q \in Shells : q < r => pc[q] \notin {"idle", "done"}
    /\ runs' = runs + 1
    /\ stale' = stale \cup (IF tunnel[r] = "alive" THEN ARGOCD_PF_PID[r] ELSE {})
    /\ pc' = [pc EXCEPT ![r] = MainSteps[1]]
    /\ ran' = [ran EXCEPT ![r] = << >>]
    /\ status' = [status EXCEPT ![r] = 0]
    /\ PID' = [PID EXCEPT ![r] = {}]
    /\ ARGOCD_PF_PID' = [ARGOCD_PF_PID EXCEPT ![r] = {}]
    /\ tunnel' = [tunnel EXCEPT ![r] = "none"]
    /\ victim' = [victim EXCEPT ![r] = "none"]
    /\ stop' = [stop EXCEPT ![r] = "no"]
    /\ cleanupCalls' = [cleanupCalls EXCEPT ![r] = 0]
    /\ onPath' = [onPath EXCEPT ![r] = Range(Tools)]
    /\ reported' = [reported EXCEPT ![r] = {}]
    /\ failed' = [failed EXCEPT ![r] = {}]
    /\ calls' = [calls EXCEPT ![r] = << >>]
    /\ elapsed' = [elapsed EXCEPT ![r] = 0]
    /\ ARGOCD_PASSWORD' = [ARGOCD_PASSWORD EXCEPT ![r] = ""]
    /\ shown' = [shown EXCEPT ![r] = {}]
    /\ UNCHANGED <<pidFile, others, readyLog, envVars>>
    /\ UNCHANGED otherVars

\* The operator starts the script when no run is in progress.
StartRun(r) == Sequential /\ Launch(r)

\* The operator starts the script, be a run in progress or not.
StartRunOverlap(r) == Launch(r)

\* check_prerequisites: log_error and exit 1 at the first missing tool;
\* present is what the shell's PATH offers.
check_prerequisites(r) ==
    /\ pc[r] = "check_prerequisites"
    /\ \E present \in SUBSET Range(Tools) :
          /\ onPath' = [onPath EXCEPT ![r] = present]
          /\ reported' = [reported EXCEPT ![r] = FirstMissing(present)]
          /\ IF FirstMissing(present) # {}
             THEN Fail(r)
             ELSE Advance(r, "check_prerequisites")
    /\ UNCHANGED <<procVars, runs, envVars, calls, elapsed, ARGOCD_PASSWORD,
                   shown, readyLog>>
    /\ UNCHANGED otherVars

\* A stage whose commands run under set -e: the first failing command ends
\* the run; when all have succeeded the stage waits for readiness if it has
\* a wait, and has succeeded if it has none.  appYaml tells if the file
\* deploy/argocd/app.yaml is there, foreign which clusters of other names
\* `k3d cluster list` shows.
Stage(r, s) ==
    /\ pc[r] = s
    /\ \E appYaml \in (IF s = "deploy_application" THEN BOOLEAN ELSE {TRUE}),
          foreign \in (IF s = "create_cluster"
                       THEN SUBSET (ClusterNames \ {CLUSTER_NAME}) ELSE {{}}) :
          LET listed == foreign \cup (IF cluster # {} THEN {CLUSTER_NAME} ELSE {})
              cmds == Commands(s, GrepMatch(listed, CLUSTER_NAME), appYaml)
          IN  \E k \in 0..Len(cmds) :
                /\ Possible(cmds, k, Env, runs)
                /\ cluster' = After(cmds, k, Env, runs).cluster
                /\ content' = After(cmds, k, Env, runs).content
                /\ secret' = After(cmds, k, Env, runs).secret
                /\ synced' = After(cmds, k, Env, runs).synced
                /\ context' = After(cmds, k, Env, runs).context
                /\ IF k < Len(cmds)
                   THEN /\ Fail(r)
                        /\ calls' = [calls EXCEPT ![r] = @ \o Issued(s, cmds, k)]
                        /\ UNCHANGED elapsed
                   ELSE IF WaitOf(s) = ""
                   THEN /\ Advance(r, s)
                        /\ calls' = [calls EXCEPT ![r] = @ \o Issued(s, cmds, k)]
                        /\ UNCHANGED elapsed
                   ELSE /\ pc' = [pc EXCEPT ![r] = WaitOf(s)]
                        /\ elapsed' = [elapsed EXCEPT ![r] = 0]
                        /\ calls' = [calls EXCEPT ![r] =
                              @ \o Issued(s, cmds, k) \o
                              (IF s = "install_argocd"
                               THEN << [stage |-> s, cmd |-> "kubectl wait"] >>
                               ELSE << >>)]
                        /\ UNCHANGED <<ran, status, stop, cleanupCalls, failed>>
    /\ UNCHANGED <<procVars, runs, onPath, reported, ARGOCD_PASSWORD, shown,
                   readyLog>>
    /\ UNCHANGED otherVars

create_cluster(r) == Stage(r, "create_cluster")

install_ingress_nginx(r) == Stage(r, "install_ingress_nginx")

install_keda(r) == Stage(r, "install_keda")

\* install_argocd up to the wait (lines 127-137).
install_argocd(r) == Stage(r, "install_argocd")

\* A minute passes while helm or kubectl waits for the component.
Tick(r) ==
    /\ pc[r] \in WaitSteps
    /\ ~TimedOut(pc[r], elapsed[r])
    /\ elapsed' = [elapsed EXCEPT ![r] = @ + 60]
    /\ UNCHANGED <<pc, ran, status, stop, cleanupCalls, failed, procVars, runs,
                   envVars, onPath, reported, calls, ARGOCD_PASSWORD, shown,
                   readyLog>>
    /\ UNCHANGED otherVars

\* The component reports available: the stage has succeeded.  install_argocd
\* goes on to read the admin password (line 140); the failure of kubectl is
\* lost in the pipeline, whose status is that of base64 -d.
WaitDone(r) ==
    /\ pc[r] \in WaitSteps
    /\ content[Awaited[pc[r]]] > 0
    /\ Advance(r, StageOf(pc[r]))
    /\ IF pc[r] = "wait_argocd"
       THEN /\ ARGOCD_PASSWORD' =
                 [ARGOCD_PASSWORD EXCEPT ![r] = Base64Decode(GetSecret(secret))]
            /\ calls' = [calls EXCEPT ![r] = Append(@,
                 [stage |-> "install_argocd", cmd |-> "kubectl get secret"])]
       ELSE UNCHANGED <<ARGOCD_PASSWORD, calls>>
    /\ elapsed' = [elapsed EXCEPT ![r] = 0]
    /\ UNCHANGED <<procVars, runs, envVars, onPath, reported, shown, readyLog>>
    /\ UNCHANGED otherVars

\* The bound of the wait has elapsed: helm or kubectl fails, and set -e ends
\* the run.
WaitTimeout(r) ==
    /\ pc[r] \in WaitSteps
    /\ TimedOut(pc[r], elapsed[r])
    /\ Fail(r)
    /\ UNCHANGED <<procVars, runs, envVars, runVars>>
    /\ UNCHANGED otherVars

\* helm or kubectl fails while it waits (the API server is gone, a hook of
\* the chart has failed).
WaitError(r) ==
    /\ pc[r] \in WaitSteps
    /\ ~TimedOut(pc[r], elapsed[r])
    /\ Fail(r)
    /\ elapsed' = [elapsed EXCEPT ![r] = 0]
    /\ UNCHANGED <<procVars, runs, envVars, onPath, reported, calls,
                   ARGOCD_PASSWORD, shown, readyLog>>
    /\ UNCHANGED otherVars

\* kubectl port-forward ... & ; ARGOCD_PF_PID=$!  (lines 147-148).
port_forward(r) ==
    /\ pc[r] = "port_forward"
    /\ \E p \in Pids \ LivePids :
          /\ ARGOCD_PF_PID' = [ARGOCD_PF_PID EXCEPT ![r] = {p}]
          /\ tunnel' = [tunnel EXCEPT ![r] = "alive"]
    /\ calls' = [calls EXCEPT ![r] = Append(@,
          [stage |-> "install_argocd", cmd |-> "kubectl port-forward"])]
    /\ Advance(r, "port_forward")
    /\ UNCHANGED <<PID, pidFile, others, stale, runs, victim, envVars, onPath,
                   reported, elapsed, ARGOCD_PASSWORD, shown, readyLog>>
    /\ UNCHANGED otherVars

\* echo "${ARGOCD_PF_PID}" > /tmp/argocd-port-forward.pid  (lines 150-152).
save_pid(r) ==
    /\ pc[r] = "save_pid"
    /\ pidFile' = ARGOCD_PF_PID[r]
    /\ calls' = [calls EXCEPT ![r] = Append(@,
          [stage |-> "install_argocd", cmd |-> "write pid file"])]
    /\ Advance(r, "save_pid")
    /\ UNCHANGED <<PID, ARGOCD_PF_PID, tunnel, others, stale, runs, victim,
                   envVars, onPath, reported, elapsed, ARGOCD_PASSWORD, shown,
                   readyLog>>
    /\ UNCHANGED otherVars

\* deploy_application: return 1 when deploy/argocd/app.yaml is missing.
deploy_application(r) == Stage(r, "deploy_application")

\* display_info only prints, the password among the rest (line 193); main
\* then returns and the shell exits with 0.
display_info(r) ==
    /\ pc[r] = "display_info"
    /\ shown' = [shown EXCEPT ![r] = {ARGOCD_PASSWORD[r]}]
    /\ calls' = [calls EXCEPT ![r] = Append(@,
          [stage |-> "display_info", cmd |-> "echo"])]
    /\ readyLog' = readyLog \cup
          {[run |-> runs, exists |-> cluster # {}, content |-> content]}
    /\ Advance(r, "display_info")
    /\ UNCHANGED <<procVars, runs, envVars, onPath, reported, elapsed,
                   ARGOCD_PASSWORD>>
    /\ UNCHANGED otherVars

\* A terminating signal reaches the shell while main runs: EXIT trap, then
\* death by the signal.
Interrupt(r) ==
    /\ pc[r] \in Range(MainSteps) \cup WaitSteps
    /\ \E sig \in Signals : Exit(r, 128 + sig)
    /\ elapsed' = [elapsed EXCEPT ![r] = 0]
    /\ UNCHANGED <<ran, failed, procVars, runs, envVars, onPath, reported,
                   calls, ARGOCD_PASSWORD, shown, readyLog>>
    /\ UNCHANGED otherVars

\* A terminating signal reaches the shell while the EXIT trap runs: the trap
\* is abandoned where it is and is not run again.
InterruptCleanup(r) ==
    /\ pc[r] \in Range(CleanupSteps)
    /\ \E sig \in Signals : status' = [status EXCEPT ![r] = 128 + sig]
    /\ pc' = [pc EXCEPT ![r] = "done"]
    /\ stop' = [stop EXCEPT ![r] = "interrupted"]
    /\ UNCHANGED <<ran, failed, procVars, runs, cleanupCalls, envVars, runVars>>
    /\ UNCHANGED otherVars

\* cleanup returns: the shell exits with the status it was exiting with.
Return(r) ==
    /\ pc' = [pc EXCEPT ![r] = "done"]
    /\ stop' = [stop EXCEPT ![r] = "returned"]
    /\ UNCHANGED status

\* A command of cleanup fails under set -e: the trap ends there and the shell
\* exits, with 1 unless it is dying of a signal.
ErrExit(r) ==
    /\ pc' = [pc EXCEPT ![r] = "done"]
    /\ stop' = [stop EXCEPT ![r] = "failed"]
    /\ status' = [status EXCEPT ![r] = IF @ > 128 THEN @ ELSE 1]

\* if [ -f "/tmp/argocd-port-forward.pid" ]  (line 206).
cleanup_test(r) ==
    /\ pc[r] = "cleanup"
    /\ IF FileTest(pidFile)
       THEN /\ pc' = [pc EXCEPT ![r] = "cat"]
            /\ UNCHANGED <<status, stop>>
       ELSE Return(r)
    /\ UNCHANGED <<ran, failed, procVars, runs, cleanupCalls, envVars, runVars>>
    /\ UNCHANGED otherVars

\* PID=$(cat /tmp/argocd-port-forward.pid)  (line 207).
cleanup_cat(r) ==
    /\ pc[r] = "cat"
    /\ PID' = [PID EXCEPT ![r] = pidFile]
    /\ IF pidFile # {}
       THEN /\ pc' = [pc EXCEPT ![r] = "kill0"]
            /\ UNCHANGED <<status, stop>>
       ELSE ErrExit(r)
    /\ UNCHANGED <<ran, failed, ARGOCD_PF_PID, tunnel, pidFile, others, stale,
                   runs, victim, cleanupCalls, envVars, runVars>>
    /\ UNCHANGED otherVars

\* if kill -0 "$PID" 2>/dev/null  (line 208).
cleanup_kill0(r) ==
    /\ pc[r] = "kill0"
    /\ IF KillZero(PID[r], LivePids)
       THEN /\ pc' = [pc EXCEPT ![r] = "kill"]
            /\ UNCHANGED <<status, stop>>
       ELSE Return(r)
    /\ UNCHANGED <<ran, failed, procVars, runs, cleanupCalls, envVars, runVars>>
    /\ UNCHANGED otherVars

\* kill "$PID"  (line 209).
cleanup_kill(r) ==
    /\ pc[r] = "kill"
    /\ IF PID[r] \subseteq LivePids
       THEN /\ victim' = [victim EXCEPT ![r] = ProcessAt(r, PID[r])]
            /\ tunnel' = Terminate(tunnel, PID[r])
            /\ others' = others \ PID[r]
            /\ stale' = stale \ PID[r]
            /\ pc' = [pc EXCEPT ![r] = "rm"]
            /\ UNCHANGED <<status, stop>>
       ELSE /\ ErrExit(r)
            /\ UNCHANGED <<victim, tunnel, others, stale>>
    /\ UNCHANGED <<ran, failed, PID, ARGOCD_PF_PID, pidFile, runs, cleanupCalls,
                   envVars, runVars>>
    /\ UNCHANGED otherVars

\* rm -f /tmp/argocd-port-forward.pid  (line 210), then cleanup returns.
cleanup_rm(r) ==
    /\ pc[r] = "rm"
    /\ pidFile' = {}
    /\ Return(r)
    /\ UNCHANGED <<ran, failed, PID, ARGOCD_PF_PID, tunnel, others, stale, runs,
                   victim, cleanupCalls, envVars, runVars>>
    /\ UNCHANGED otherVars

\* ------------------------------------------------------- the environment
\* The port-forward ends on its own (lost connection, port in use, or the
\* advertised `kill $(cat /tmp/argocd-port-forward.pid)`).
TunnelExits(r) ==
    /\ tunnel[r] = "alive"
    /\ tunnel' = [tunnel EXCEPT ![r] = "exited"]
    /\ UNCHANGED <<pc, ran, status, PID, ARGOCD_PF_PID, pidFile, others, stale,
                   runs, victim, stop, cleanupCalls, failed, envVars, runVars>>
    /\ UNCHANGED otherVars

\* The port-forward of an earlier run ends on its own.
StaleExits(p) ==
    /\ p \in stale
    /\ stale' = stale \ {p}
    /\ UNCHANGED <<pc, ran, status, PID, ARGOCD_PF_PID, tunnel, pidFile, others,
                   runs, victim, stop, cleanupCalls, failed, envVars, runVars>>
    /\ UNCHANGED otherVars

\* The system gives the free pid p to an unrelated process of the user.
OtherStarts(p) ==
    /\ p \notin LivePids
    /\ others' = others \cup {p}
    /\ UNCHANGED <<pc, ran, status, PID, ARGOCD_PF_PID, tunnel, pidFile, stale,
                   runs, victim, stop, cleanupCalls, failed, envVars, runVars>>
    /\ UNCHANGED otherVars

\* An unrelated process ends.
OtherExits(p) ==
    /\ p \in others
    /\ others' = others \ {p}
    /\ UNCHANGED <<pc, ran, status, PID, ARGOCD_PF_PID, tunnel, pidFile, stale,
                   runs, victim, stop, cleanupCalls, failed, envVars, runVars>>
    /\ UNCHANGED otherVars

\* argocd-server, once applied, generates the admin password and stores it
\* in argocd-initial-admin-secret.
SecretAppears ==
    /\ content["argocd"] > 0
    /\ secret = {}
    /\ \E p \in Passwords : secret' = {p}
    /\ UNCHANGED <<pc, ran, status, stop, cleanupCalls, failed, procVars, runs,
                   cluster, content, synced, context, runVars>>
    /\ UNCHANGED otherVars

\* ArgoCD reconciles the Application that line 164 submitted: the script
\* does not look at it (lines 166-174).
AppSyncs ==
    /\ content["app"] > 0
    /\ ~synced
    /\ synced' = TRUE
    /\ UNCHANGED <<pc, ran, status, stop, cleanupCalls, failed, procVars, runs,
                   cluster, content, secret, context, runVars>>
    /\ UNCHANGED otherVars

Next ==
    \/ \E r \in Shells : StartRun(r)
    \/ \E r \in Shells : check_prerequisites(r)
    \/ \E r \in Shells : create_cluster(r)
    \/ \E r \in Shells : install_ingress_nginx(r)
    \/ \E r \in Shells : install_keda(r)
    \/ \E r \in Shells : install_argocd(r)
    \/ \E r \in Shells : Tick(r)
    \/ \E r \in Shells : WaitDone(r)
    \/ \E r \in Shells : WaitTimeout(r)
    \/ \E r \in Shells : WaitError(r)
    \/ \E r \in Shells : port_forward(r)
    \/ \E r \in Shells : save_pid(r)
    \/ \E r \in Shells : deploy_application(r)
    \/ \E r \in Shells : display_info(r)
    \/ \E r \in Shells : Interrupt(r)
    \/ \E r \in Shells : InterruptCleanup(r)
    \/ \E r \in Shells : cleanup_test(r)
    \/ \E r \in Shells : cleanup_cat(r)
    \/ \E r \in Shells : cleanup_kill0(r)
    \/ \E r \in Shells : cleanup_kill(r)
    \/ \E r \in Shells : cleanup_rm(r)
    \/ \E r \in Shells : TunnelExits(r)
    \/ \E p \in Pids : StaleExits(p)
    \/ \E p \in Pids : OtherStarts(p)
    \/ \E p \in Pids : OtherExits(p)
    \/ SecretAppears

Spec == Init /\ [][Next]_vars

\* The script with ArgoCD's reconciliation of the Application going on
\* beside it.
NextSync == Next \/ AppSyncs

SpecSync == Init /\ [][NextSync]_vars

\* The script started while another run of it is going on, with no signal
\* sent, no other process coming or going, and waits that end at once.
NextOverlap ==
    \/ \E r \in Shells : StartRunOverlap(r)
    \/ \E r \in Shells : check_prerequisites(r)
    \/ \E r \in Shells : create_cluster(r)
    \/ \E r \in Shells : install_ingress_nginx(r)
    \/ \E r \in Shells : install_keda(r)
    \/ \E r \in Shells : install_argocd(r)
    \/ \E r \in Shells : WaitDone(r)
    \/ \E r \in Shells : WaitError(r)
    \/ \E r \in Shells : port_forward(r)
    \/ \E r \in Shells : save_pid(r)
    \/ \E r \in Shells : deploy_application(r)
    \/ \E r \in Shells : display_info(r)
    \/ \E r \in Shells : cleanup_test(r)
    \/ \E r \in Shells : cleanup_cat(r)
    \/ \E r \in Shells : cleanup_kill0(r)
    \/ \E r \in Shells : cleanup_kill(r)
    \/ \E r \in Shells : cleanup_rm(r)
    \/ \E r \in Shells : TunnelExits(r)

SpecOverlap == Init /\ [][NextOverlap]_vars

\* ------------------------------------- calls of env.validation.ts
\* A call is about to be made: any schema, any process.env, any argument.
InitValidation ==
    /\ InitBootstrap
    /\ InitChartsIdle
    /\ validation \in
          [config : Schemas,
           processEnv : EnvObjects,
           passed : {[given |-> FALSE, vars |-> EmptyEnv]}
                    \cup {[given |-> TRUE, vars |-> e] : e \in EnvObjects},
           direct : {NoOutcome},
           viaValidator : {NoOutcome}]

\* validateEnvironment(config, envVars) is called.
CallValidateEnvironment ==
    /\ validation.direct.kind = "none"
    /\ validation' =
          [validation EXCEPT !.direct =
              validateEnvironment(validation.config, validation.passed,
                                  validation.processEnv)]
    /\ UNCHANGED <<bootstrapVars, charts>>

\* createEnvironmentValidator(config)(envVars) is called.
CallValidator ==
    /\ validation.viaValidator.kind = "none"
    /\ validation' =
          [validation EXCEPT !.viaValidator =
              createEnvironmentValidator(validation.config, validation.passed,
                                         validation.processEnv)]
    /\ UNCHANGED <<bootstrapVars, charts>>

NextValidation == CallValidateEnvironment \/ CallValidator

SpecValidation == InitValidation /\ [][NextValidation]_vars

\* ------------------------- runs of the chart validation script
\* The script is started.
InitCharts ==
    /\ InitBootstrap
    /\ InitValidationIdle
    /\ charts =
          [step |-> "main", service |-> 1, failed_charts |-> << >>,
           chart |-> GoodChart, validated |-> << >>, exitCode |-> {}]

\* The script after exit n in state c.
ExitScript(c, n) == [c EXCEPT !.exitCode = {n}, !.step = "exited"]

\* if [ ! -d "$CHART_DIR" ] ... exit 1  (lines 388-392).
check_chart_dir ==
    /\ charts.step = "main"
    /\ \E there \in BOOLEAN :
          charts' = IF there THEN [charts EXCEPT !.step = "umbrella"]
                    ELSE ExitScript(charts, 1)
    /\ UNCHANGED <<bootstrapVars, validation>>

\* Chart c validated under the name n: validate_chart has run and the call
\* is on record.
Validated(c, n) ==
    [charts EXCEPT
        !.chart = c,
        !.validated = Append(@, [name |-> n, ran |-> validate_chart(c).ran,
                                 status |-> validate_chart(c).status])]

\* validate_chart "$CHART_DIR" "contract-analyzer" || exit 1  (line 395).
validate_umbrella ==
    /\ charts.step = "umbrella"
    /\ \E c \in Charts :
          /\ c.dir
          /\ charts' =
                IF validate_chart(c).status # 0
                THEN ExitScript(Validated(c, "contract-analyzer"), 1)
                ELSE [Validated(c, "contract-analyzer") EXCEPT !.step = "loop"]
    /\ UNCHANGED <<bootstrapVars, validation>>

\* One round of the loop of lines 399-404.
validate_service ==
    /\ charts.step = "loop"
    /\ \E c \in Charts :
          charts' =
             [Validated(c, SERVICES[charts.service]) EXCEPT
                 !.failed_charts =
                     IF validate_chart(c).status # 0
                     THEN Append(@, SERVICES[charts.service]) ELSE @,
                 !.service = IF @ < Len(SERVICES) THEN @ + 1 ELSE @,
                 !.step = IF charts.service < Len(SERVICES) THEN @ ELSE "summary"]
    /\ UNCHANGED <<bootstrapVars, validation>>

\* The summary (lines 407-429): exit 1 when failed_charts is not empty, and
\* the end of the script with the status of the last echo when it is.
summary ==
    /\ charts.step = "summary"
    /\ charts' = IF Len(charts.failed_charts) = 0 THEN ExitScript(charts, 0)
                 ELSE ExitScript(charts, 1)
    /\ UNCHANGED <<bootstrapVars, validation>>

NextCharts ==
    \/ check_chart_dir
    \/ validate_umbrella
    \/ validate_service
    \/ summary

SpecCharts == InitCharts /\ [][NextCharts]_vars

TypeOK ==
    /\ pc \in [Shells -> {"idle", "done"} \cup Range(MainSteps) \cup WaitSteps
                           \cup Range(CleanupSteps)]
    /\ ran \in [Shells -> {SubSeq(MainSteps, 1, n) : n \in 0..Len(MainSteps)}]
    /\ status \in [Shells -> {0, 1} \cup {128 + s : s \in Signals}]
    /\ PID \in [Shells -> SUBSET Pids]
    /\ ARGOCD_PF_PID \in [Shells -> SUBSET Pids]
    /\ tunnel \in [Shells -> {"none", "alive", "exited", "killed"}]
    /\ pidFile \in SUBSET Pids
    /\ others \in SUBSET Pids
    /\ stale \in SUBSET Pids
    /\ runs \in 0..MaxRuns
    /\ victim \in [Shells -> {"none", "own", "tunnel", "other"}]
    /\ stop \in [Shells -> {"no", "running", "returned", "failed", "interrupted"}]
    /\ cleanupCalls \in [Shells -> 0..1]
    /\ onPath \in [Shells -> SUBSET Range(Tools)]
    /\ reported \in [Shells -> SUBSET Range(Tools)]
    /\ failed \in [Shells -> SUBSET Range(MainSteps)]
    /\ \A r \in Shells : \A i \in 1..Len(calls[r]) :
          calls[r][i].stage \in Range(MainSteps)
    /\ elapsed \in [Shells -> 0..300]
    /\ ARGOCD_PASSWORD \in [Shells -> {""} \cup Passwords]
    /\ shown \in [Shells -> SUBSET ({""} \cup Passwords)]
    /\ cluster \in SUBSET (1..MaxRuns)
    /\ content \in [Components -> 0..MaxRuns]
    /\ secret \in SUBSET Passwords
    /\ synced \in BOOLEAN
    /\ context \in {"default", ClusterContext}
    /\ readyLog \subseteq [run : 1..MaxRuns, exists : BOOLEAN,
                           content : [Components -> 0..MaxRuns]]

\* ------------------------------------------------------------ the claims
Started(r) == tunnel[r] # "none"

\* The stages in the order the specification gives them.
StageOrder ==
    << "check_prerequisites", "create_cluster", "install_ingress_nginx",
       "install_keda", "install_argocd", "deploy_application", "display_info" >>

\* The place of a stage in that order.
Rank == [s \in Range(StageOrder) |-> IndexOf(StageOrder, s)]

\* Stage s of run r has begun: the run is in it or has issued one of its
\* commands.
Begun(r, s) ==
    \/ StageOf(pc[r]) = s
    \/ \E i \in 1..Len(calls[r]) : calls[r][i].stage = s

\* The stages run r has begun last: the stage it is in and the stage of the
\* last command it has issued.  When the commands never go back to an
\* earlier stage, every stage the run has begun is one of these or comes
\* before one of them.
Latest(r) ==
    (IF pc[r] \in Range(MainSteps) \cup WaitSteps THEN {StageOf(pc[r])} ELSE {})
    \cup (IF Len(calls[r]) > 0 THEN {calls[r][Len(calls[r])].stage} ELSE {})

\* Stage s of run r has succeeded, its readiness wait included (the stage
\* install_argocd ends with the write of the handle file).
Done(r, s) ==
    IF s = "install_argocd" THEN "save_pid" \in Range(ran[r])
    ELSE s \in Range(ran[r])

Succeeded(r) == ran[r] = MainSteps /\ status[r] = 0

\* C1: in every run in which the port-forward was started, cleanup is
\* invoked exactly once before the shell exits, on every exit path (end of
\* main, a failing later stage, a terminating signal); no run invokes it
\* more than once.
C1_CleanupExactlyOnce ==
    \A r \in Shells :
        /\ cleanupCalls[r] <= 1
        /\ (pc[r] = "done" /\ Started(r)) => cleanupCalls[r] = 1

\* C1 witness: a run that had started the tunnel and was then ended by a
\* signal has exited with cleanup invoked once.
C1_Witness ==
    \E r \in Shells :
        /\ pc[r] = "done" /\ Started(r) /\ cleanupCalls[r] = 1
        /\ status[r] \in {128 + sig : sig \in Signals}
        /\ stop[r] = "returned"

C3_TunnelSurvivesSuccessfulRun ==
    \A r \in Shells :
        (pc[r] = "done" /\ Succeeded(r) /\ tunnel[r] # "exited")
        => (tunnel[r] = "alive" /\ pidFile = ARGOCD_PF_PID[r])

C5_HandleFileRemovedByStop ==
    [][\A r \in Shells :
          (stop[r] = "running" /\ stop'[r] = "returned") => pidFile' = {}]_vars

\* C6: when cleanup finds the handle file missing, or finds no live process
\* with the recorded pid, it returns at once: no process is signalled or
\* ended, the handle file is left as it is, and the exit status is kept.
C6_StopNoopWhenMissingOrDead ==
    [][\A r \in Shells :
          ( /\ \/ pc[r] = "cleanup" /\ pidFile = {}
               \/ pc[r] = "kill0" /\ PID[r] \cap LivePids = {}
            /\ pc'[r] # pc[r]
            /\ stop'[r] # "interrupted" )
          => /\ stop'[r] = "returned" /\ pc'[r] = "done"
             /\ status'[r] = status[r]
             /\ victim'[r] = "none"
             /\ <<tunnel, others, stale, pidFile>>' = <<tunnel, others, stale, pidFile>>]_vars

\* C6 witness: cleanup returned without a signal in a run whose recorded
\* tunnel process had already ended; the status is the one of main.
C6_Witness ==
    \E r \in Shells :
        /\ stop[r] = "returned" /\ victim[r] = "none"
        /\ tunnel[r] = "exited" /\ PID[r] = ARGOCD_PF_PID[r] /\ PID[r] # {}
        /\ Succeeded(r)

\* C7: a failure inside cleanup never changes the exit status of the run,
\* and after a failing kill the removal of the handle file is still made.
C7_StopFailureNotEscalated ==
    [][\A r \in Shells :
          (pc[r] \in Range(CleanupSteps) /\ pc'[r] # pc[r]
             /\ stop'[r] # "interrupted")
          => /\ status'[r] = status[r]
             /\ pc[r] = "kill" => pc'[r] = "rm"]_vars

\* C8: at every moment at most one tunnel process is alive.
C8_AtMostOneTunnel ==
    Cardinality(stale) + Cardinality({r \in Shells : tunnel[r] = "alive"}) <= 1

\* C9: cleanup signals no process other than the tunnel its own run spawned.
C9_StopSignalsOnlyOwnTunnel ==
    \A r \in Shells : victim[r] \in {"none", "own"}

\* C10: cleanup never runs while the tunnel the run spawned is alive and
\* the handle file does not hold its pid.
C10_PidRecordedFromSpawn ==
    \A r \in Shells :
        (pc[r] \in Range(CleanupSteps) /\ tunnel[r] = "alive")
        => pidFile = ARGOCD_PF_PID[r]

\* C11: the stages run one after the other in the order prerequisite check,
\* cluster creation, ingress install, KEDA install, ArgoCD install,
\* application deploy, report: the commands a run issues never go back to an
\* earlier stage, every stage before a stage the run has begun has succeeded
\* (its readiness wait included), and at most one stage is begun and neither
\* succeeded nor failed.
C11_StagesInFixedOrder ==
    \A r \in Shells :
        /\ \A i \in 1..(Len(calls[r]) - 1) :
               Rank[calls[r][i].stage] <= Rank[calls[r][i + 1].stage]
        /\ \A t \in Latest(r) : \A s \in Range(StageOrder) :
               Rank[s] < Rank[t] => Done(r, s)
        /\ Cardinality({s \in Latest(r) :
               ~Done(r, s) /\ failed[r] # {s}}) <= 1

\* A run has gone through all seven stages.
C11_Witness ==
    \E r \in Shells :
        /\ \A s \in Range(StageOrder) : Done(r, s)
        /\ \A s \in Range(StageOrder) \ {"check_prerequisites"} :
               \E i \in 1..Len(calls[r]) : calls[r][i].stage = s

\* C12: fail-fast.  When a command or the readiness wait of a stage has
\* failed, the run has left main for good (it is in the EXIT trap or has
\* ended), its exit status is not 0, it has issued no command of a later
\* stage, and a failure of the ArgoCD stage has left the port-forward
\* unspawned.
C12_FailFast ==
    \A r \in Shells : \A s \in failed[r] :
        /\ pc[r] \in Range(CleanupSteps) \cup {"done"}
        /\ status[r] # 0
        /\ \A t \in Range(StageOrder) :
               Rank[s] < Rank[t] => ~Begun(r, t)
        /\ Len(calls[r]) > 0 => calls[r][Len(calls[r])].stage = s
        /\ s = "install_argocd" => tunnel[r] = "none"

\* A run whose KEDA stage failed after the stages before it had succeeded.
C12_Witness ==
    \E r \in Shells :
        /\ failed[r] = {"install_keda"}
        /\ Done(r, "install_ingress_nginx")
        /\ pc[r] = "done"

\* C13: a run that has ended, and was not killed by a signal, has exit
\* status 0 if and only if the prerequisite check and every stage succeeded.
C13_ExitZeroIffAllStagesSucceeded ==
    \A r \in Shells :
        pc[r] = "done" /\ status[r] < 128 =>
            (status[r] = 0 <=> \A s \in Range(StageOrder) : Done(r, s))

\* C14: whatever tools are present, the prerequisite check names the first
\* missing one in the order k3d, kubectl, helm and fails, or names none and
\* succeeds; the check itself changes nothing (no cluster, no installation,
\* no process, no file); and a run whose check failed ends with a non-zero
\* status without having issued a command or spawned the port-forward.
C14_PrerequisiteCheck ==
    [][\A r \in Shells :
         /\ pc[r] = "check_prerequisites" /\ pc'[r] # pc[r] /\ status'[r] < 128
            => /\ reported'[r] =
                    (IF "k3d" \notin onPath'[r] THEN {"k3d"}
                     ELSE IF "kubectl" \notin onPath'[r] THEN {"kubectl"}
                     ELSE IF "helm" \notin onPath'[r] THEN {"helm"}
                     ELSE {})
               /\ IF onPath'[r] = {"k3d", "kubectl", "helm"}
                  THEN failed'[r] = {} /\ pc'[r] = "create_cluster"
                  ELSE /\ failed'[r] = {"check_prerequisites"}
                       /\ status'[r] # 0
                       /\ pc'[r] \notin Range(MainSteps)
               /\ UNCHANGED <<cluster, content, secret, pidFile, tunnel,
                              others, stale, calls>>
         /\ failed'[r] = {"check_prerequisites"}
            => /\ status'[r] # 0
               /\ calls'[r] = << >>
               /\ ran'[r] = << >>
               /\ tunnel'[r] = "none"
               /\ pc'[r] \in Range(CleanupSteps) \cup {"done"}]_vars

\* A run with k3d present and kubectl and helm missing has ended: the check
\* named kubectl.
C14_Witness ==
    \E r \in Shells :
        /\ onPath[r] = {"k3d"}
        /\ reported[r] = {"kubectl"}
        /\ failed[r] = {"check_prerequisites"}
        /\ pc[r] = "done"

\* The commands run r issues in the step, in order.
NewCalls(r) == SubSeq(calls'[r], Len(calls[r]) + 1, Len(calls'[r]))

C16_SuccessfulRunsLeaveSameState ==
    /\ \A e \in readyLog :
          e.exists /\ \A c \in Components : e.content[c] = 1
    /\ \A d, e \in readyLog : d.exists = e.exists /\ d.content = e.content

\* Two runs in succession have both succeeded.
C16_Witness ==
    /\ \E e \in readyLog : e.run = 1
    /\ \E e \in readyLog : e.run = 2
    /\ \E r \in Shells : pc[r] = "done" /\ status[r] = 0

\* C17: a readiness wait never lasts longer than 300 seconds, and once 300
\* seconds have elapsed without the component reporting available the only
\* thing the run does is to fail the stage and leave main.
C17_ReadinessWaitBounded ==
    [][\A r \in Shells :
         /\ pc'[r] \in WaitSteps => elapsed'[r] <= 300
         /\ pc[r] \in WaitSteps /\ elapsed[r] >= 300 /\ pc'[r] # pc[r]
               /\ StageOf(pc[r]) \notin Range(ran'[r]) /\ status'[r] < 128
            => /\ failed'[r] = {StageOf(pc[r])}
               /\ status'[r] # 0
               /\ pc'[r] \in Range(CleanupSteps) \cup {"done"}]_vars

\* The ingress controller never reported available: the run has ended with
\* the stage failed after a wait of 300 seconds.
C17_Witness ==
    \E r \in Shells :
        /\ failed[r] = {"install_ingress_nginx"}
        /\ elapsed[r] = 300
        /\ pc[r] = "done"

\* C18: in a run whose cluster creation succeeded and whose ingress install
\* failed or timed out, the exit status is not 0, no port-forward was spawned,
\* the run has not written the handle file, and no later stage has begun.
C18_IngressFailureStopsBeforeTunnel ==
    \A r \in Shells :
        Done(r, "create_cluster") /\ failed[r] = {"install_ingress_nginx"}
        => /\ status[r] # 0
           /\ pc[r] \in Range(CleanupSteps) \cup {"done"}
           /\ tunnel[r] = "none"
           /\ ARGOCD_PF_PID[r] = {}
           /\ \A i \in 1..Len(calls[r]) :
                 calls[r][i].cmd \notin {"kubectl port-forward", "write pid file"}
           /\ \A t \in {"install_keda", "install_argocd", "deploy_application",
                         "display_info"} : ~Begun(r, t)

\* helm upgrade of ingress-nginx failed at once in a run that had created
\* the cluster.
C18_Witness ==
    \E r \in Shells :
        /\ Done(r, "create_cluster")
        /\ failed[r] = {"install_ingress_nginx"}
        /\ calls[r][Len(calls[r])].cmd = "helm upgrade ingress-nginx"
        /\ elapsed[r] = 0
        /\ pc[r] = "done"

\* C19: when the admin secret is readable by the time the report is printed,
\* having become readable only some time after the deployment reported
\* available, the password held in ARGOCD_PASSWORD and printed by
\* display_info is the secret's value.
C19_DelayedSecretIsDisplayed ==
    [][\A r \in Shells :
         pc[r] = "display_info" /\ pc'[r] # pc[r] /\ status'[r] < 128
            /\ secret # {}
         => ARGOCD_PASSWORD[r] \in secret /\ shown'[r] = secret]_vars

\* C20: a run that found no admin password, in which no stage failed and
\* which no signal killed, has gone through every remaining stage when it
\* ends, and its exit status is 0.
C20_AbsentCredentialNotFatal ==
    \A r \in Shells :
        /\ "install_argocd" \in Range(ran[r])
        /\ ARGOCD_PASSWORD[r] = ""
        /\ failed[r] = {}
        /\ pc[r] = "done" /\ status[r] < 128
        => /\ \A s \in Range(StageOrder) : Done(r, s)
           /\ shown[r] = {""}
           /\ status[r] = 0

AfterCreate ==
    {MainSteps[i] : i \in 3..Len(MainSteps)} \cup WaitSteps

\* C22: the kubeconfig's current context becomes k3d-ca-dev only in a step
\* in which a run's `k3d cluster create` has succeeded; a run is in a later
\* statement of main only with that context selected; and a run that has
\* created the cluster ends with it selected.
C22_ContextFollowsCreation ==
    [][/\ context' = ClusterContext /\ context # ClusterContext
          => \E r \in Shells :
                /\ pc[r] = "create_cluster"
                /\ cluster' = {runs} /\ cluster' # cluster
                /\ \E j \in 1..Len(NewCalls(r)) :
                      NewCalls(r)[j].cmd = "k3d cluster create"
       /\ \A r \in Shells :
             /\ pc'[r] \in AfterCreate => context' = ClusterContext
             /\ pc'[r] = "done" /\ Done(r, "create_cluster")'
                => context' = ClusterContext]_vars

\* The second run has ended with the context on the cluster it created in
\* place of the first run's, whose context went with it.
C22_Witness ==
    \E r \in Shells :
        /\ pc[r] = "done" /\ status[r] = 0
        /\ runs = 2 /\ cluster = {2}
        /\ \E i \in 1..Len(calls[r]) : calls[r][i].cmd = "k3d cluster delete"
        /\ Done(r, "display_info")
        /\ context = ClusterContext

\* The stages that come before display_info.
Preceding == Range(StageOrder) \ {"display_info"}

\* C23: display_info has printed its summary only in a run in which every
\* stage before it succeeded and none failed; a run that ended, not by a
\* signal, after all of them succeeded has printed it; and a run in which
\* a stage failed has printed none.
C23_SummaryIffAllStagesSucceeded ==
    \A r \in Shells :
        /\ shown[r] # {} <=> "display_info" \in Range(ran[r])
        /\ shown[r] # {} => /\ \A s \in Preceding : Done(r, s)
                            /\ failed[r] = {}
        /\ pc[r] = "done" /\ status[r] < 128 /\ (\A s \in Preceding : Done(r, s))
           => shown[r] # {}
        /\ failed[r] # {} => shown[r] = {}

\* A run in which every stage succeeded has ended and has printed the
\* summary with the admin password.
C23_Witness ==
    \E r \in Shells :
        /\ pc[r] = "done"
        /\ \A s \in Preceding : Done(r, s)
        /\ failed[r] = {}
        /\ shown[r] = Passwords

\* Run r found no deploy/argocd/app.yaml: deploy_application returned 1.
DescriptorMissing(r) ==
    /\ Len(calls[r]) > 0
    /\ calls[r][Len(calls[r])] = [stage |-> "deploy_application", cmd |-> "return 1"]

\* C25: a deploy_application that finds no deploy/argocd/app.yaml has
\* applied the namespace contract-analyzer and nothing else, and the shell
\* exits with status 1 into cleanup; when such a run has ended without a
\* signal, it has submitted no Application, it has printed no summary, its
\* status is not 0 and the port-forward it had spawned is not alive.
C25_MissingDescriptor ==
    [][\A r \in Shells :
         /\ pc[r] = "deploy_application" /\ DescriptorMissing(r)'
            => /\ NewCalls(r) =
                    << [stage |-> "deploy_application", cmd |-> "kubectl apply app-ns"],
                       [stage |-> "deploy_application", cmd |-> "return 1"] >>
               /\ content'["app-ns"] = 1
               /\ content'["app"] = 0
               /\ tunnel[r] # "none"
               /\ status'[r] = 1 /\ pc'[r] = "cleanup"
         /\ pc'[r] = "done" /\ DescriptorMissing(r)' /\ status'[r] < 128
            => /\ \A i \in 1..Len(calls'[r]) : calls'[r][i].cmd # "kubectl apply app"
               /\ content'["app"] = 0
               /\ shown'[r] = {}
               /\ cleanupCalls'[r] = 1
               /\ status'[r] # 0
               /\ tunnel'[r] \in {"killed", "exited"}]_vars

\* A run that found no descriptor has ended, and its cleanup has killed the
\* port-forward it had spawned.
C25_Witness ==
    \E r \in Shells :
        /\ pc[r] = "done" /\ DescriptorMissing(r)
        /\ status[r] = 1
        /\ content["app-ns"] = 1
        /\ tunnel[r] = "killed" /\ victim[r] = "own"

\* C27: create_cluster issues `k3d cluster delete` only when the cluster
\* ca-dev itself exists, and issues `k3d cluster create` only after a delete
\* it has issued has succeeded.
C27_DeleteOnlyOnExactName ==
    [][\A r \in Shells :
         pc[r] = "create_cluster" /\ pc'[r] # pc[r] /\ status'[r] < 128
         => \A j \in 1..Len(NewCalls(r)) :
               /\ NewCalls(r)[j].cmd = "k3d cluster delete" => cluster # {}
               /\ NewCalls(r)[j].cmd = "k3d cluster create" /\ j > 1
                  => NewCalls(r)[j - 1].cmd = "k3d cluster delete"]_vars

\* Every shell has run the script: the second was started while the first
\* was in progress.
Overlapped == \A r \in Shells : pc[r] # "idle"

\* C26: when runs overlap, the kill of a run's cleanup hits no process but
\* the port-forward that run spawned, and once all of them have exited no
\* port-forward is alive and /tmp/argocd-port-forward.pid is not there.
C26_OverlappingRunsCleanUp ==
    Overlapped =>
        /\ \A r \in Shells : victim[r] \in {"none", "own"}
        /\ (\A r \in Shells : pc[r] = "done")
           => /\ \A r \in Shells : tunnel[r] # "alive"
              /\ pidFile = {}

\* The object the call of validateEnvironment works on.
Used ==
    IF validation.passed.given THEN validation.passed.vars
    ELSE validation.processEnv

\* The validation errors of that object.
ErrorsOfCall ==
    ValidateSync(validation.config, Used, PlainToClass(validation.config, Used))

\* C24: a call of validateEnvironment returns, and then the transformed
\* object, exactly when validation of the object gave no error; when it
\* gave errors the call throws, returns no object, and the message starts
\* with 'Environment validation failed: ' and holds the message of every
\* error; the validator createEnvironmentValidator builds for the schema
\* comes to the same outcome on the same argument.
C24_ReturnsIffNoErrors ==
    /\ validation.direct.kind # "none"
       => /\ validation.direct.kind = "returned" <=> ErrorsOfCall = << >>
          /\ validation.direct.kind = "thrown" <=> ErrorsOfCall # << >>
          /\ validation.direct.kind = "returned"
             => validation.direct.value =
                   {PlainToClass(validation.config, Used)}
          /\ validation.direct.kind = "thrown"
             => /\ validation.direct.value = {}
                /\ validation.direct.message[1] =
                      "Environment validation failed: "
                /\ \A i \in 1..Len(ErrorsOfCall) :
                      \E j \in 2..(Len(validation.direct.message) - 1) :
                         /\ validation.direct.message[j] =
                               ErrorsOfCall[i].property
                         /\ validation.direct.message[j + 1] =
                               ErrorsOfCall[i].constraints[1]
    /\ validation.direct.kind # "none" /\ validation.viaValidator.kind # "none"
       => validation.viaValidator = validation.direct

\* Both calls have thrown on an object with an undeclared key and two
\* invalid values.
C24_Witness ==
    /\ validation.direct.kind = "thrown"
    /\ validation.viaValidator.kind = "thrown"
    /\ Len(ErrorsOfCall) = 3
    /\ validation.passed.given

\* The umbrella chart has been validated and has passed.
UmbrellaPassed == Len(charts.validated) >= 1 /\ charts.validated[1].status = 0

\* C28: the first chart validated is the umbrella chart, and when it fails
\* the script exits with 1 with no sub-chart validated; when it passes,
\* the script comes to its summary with all five sub-charts validated in
\* the order of SERVICES, failed_charts holding exactly those that failed,
\* and it exits with 1 if one of them failed and with 0 if none did;
\* validate_chart runs its validations in their fixed order, up to and
\* including the first one the chart does not pass.
C28_ChartValidation ==
    /\ Len(charts.validated) >= 1
       => /\ charts.validated[1].name = "contract-analyzer"
          /\ charts.validated[1].status # 0
             => /\ Len(charts.validated) = 1
                /\ charts.exitCode = {1}
                /\ charts.step = "exited"
    /\ UmbrellaPassed /\ charts.step \in {"summary", "exited"}
       => /\ Len(charts.validated) = 1 + Len(SERVICES)
          /\ \A k \in 1..Len(SERVICES) :
                /\ charts.validated[k + 1].name = SERVICES[k]
                /\ charts.validated[k + 1].status # 0
                   <=> SERVICES[k] \in Range(charts.failed_charts)
    /\ UmbrellaPassed /\ charts.step = "exited"
       => /\ charts.exitCode = {1} <=> charts.failed_charts # << >>
          /\ charts.exitCode = {0} <=> charts.failed_charts = << >>
    /\ Len(charts.validated) >= 1 /\ charts.chart.dir
       => LET call == charts.validated[Len(charts.validated)]
          IN  /\ \A i \in 1..Len(call.ran) : call.ran[i] = Validations[i]
              /\ \A i \in 1..(Len(call.ran) - 1) :
                    call.ran[i] \notin charts.chart.bad
              /\ call.status = 0 <=> charts.chart.bad = {}
              /\ charts.chart.bad = {} => call.ran = Validations
              /\ charts.chart.bad # {}
                 => call.ran[Len(call.ran)] \in charts.chart.bad

\* The script has exited with 1 after the first sub-chart failed in its
\* third validation and the last one passed.
C28_Witness ==
    /\ charts.step = "exited" /\ charts.exitCode = {1}
    /\ UmbrellaPassed
    /\ Len(charts.validated) = 6
    /\ charts.validated[2].status = 1 /\ Len(charts.validated[2].ran) = 3
    /\ charts.validated[6].status = 0
    /\ charts.failed_charts = << "api-gateway" >>
====
